---- MODULE Spec2Model ----
(***************************************************************************)
(* Model of GoldNotch/HeterogeneousContainer: Core::Storage<T> (a          *)
(* std::pmr::list<T> with ObjectPointer handles), the compile-time         *)
(* type_table, HeterogeneousStorage<Ts...> and its GenericObjectPointer.   *)
(*                                                                         *)
(* A Storage object is identified by its address (a storage id).  A list   *)
(* node is identified by the address the allocator returned for it.  The   *)
(* list of a Storage is the sequence of its node addresses, begin() to    *)
(* end().  end() of a Storage is the sentinel node embedded in the list    *)
(* object itself, so every Storage has its own end() address.              *)
(***************************************************************************)
EXTENDS Integers, Sequences, FiniteSets, TLC

\* ---- bounds of the model ----
NumAddr == 4        \* node addresses the allocator can hand out
MaxEmplace == 3     \* emplace calls in one behaviour
MaxVal == 2         \* values of T passed to emplace: 1..MaxVal
NumHandles == 2     \* ObjectPointer variables held by the caller
NumGeneric == 1     \* GenericObjectPointer variables held by the caller
MaxDepth == 3       \* nested calls the program's stack has room for

\* ---- the instantiation: HeterogeneousStorage<int, string> and a Storage<int> ----
Ts == <<"int", "string">>
Types == {Ts[i] : i \in 1..Len(Ts)}
size == Len(Ts)                         \* type_table<Ts...>::size

NULL == 0                               \* nullptr (cont) / singular iterator (it)
Addr == 1..NumAddr
Vals == 1..MaxVal
HandleIds == 1..NumHandles
GenericIds == 1..NumGeneric

\* Storage objects.  Ids 1..size are the Storage objects held by
\* HeterogeneousStorage::containers[0..size-1]; id size+1 is a Storage<int>
\* the caller owns directly; id size+2 is a Storage<int> the caller constructs
\* from it, Storage<int> b(a) or Storage<int> b(std::move(a)).
ContainerIds == 1..size
PoolIds == {size + 1}
CopyIds == {size + 2}
StorageIds == (ContainerIds \cup PoolIds) \cup CopyIds

VARIABLES
  storages,    \* storages[s] = [T, list]: the std::pmr::list base of Storage s
  mem,         \* mem[a] = the list node at address a (NoObj when not allocated):
               \* [val: the T, id: history number of the object,
               \*  res: the memory resource the node was allocated from]
  hs,          \* the caller's ObjectPointer variables
  gs,          \* the caller's GenericObjectPointer variables
  hist,        \* history: hist[i] = the i-th object constructed in a Storage (by an
               \* emplace call or by the copy of a Storage), [s]: the Storage
  erasedIds,   \* history: emplace numbers whose object an erase call destroyed
  clearedIds,  \* history: emplace numbers whose object a clear call destroyed
  err,         \* how the last call ended: "none" when it returned, else the
               \* exception thrown or the failure that ended the program
  gcall,       \* nesting depth of the calls of erase(GenericObjectPointer&&) in progress
  tbl,         \* the types a type_table is instantiated with, in order
  res,         \* [op, arg, out]: the last lookup made in type_table<tbl...>, or
               \* the last traversal made through a TypedView, and its result
  procs,       \* procs[p] = [pc, a, alone]: where process p is in its call, the
               \* node it is working on, and (history) the values its Storage
               \* would hold had its calls run with no other process
  touched,     \* history: touched[a] = the processes that allocated or freed address a
  origin       \* history: origin[b] = [how, from, at, n]: how Storage b of CopyIds
               \* was constructed ("none": not yet), from which Storage, the
               \* number of objects constructed before, the number it copied

vars == <<storages, mem, hs, gs, hist, erasedIds, clearedIds, err, gcall, tbl, res,
          procs, touched, origin>>

\* the variables the operations of Storage, ObjectPointer and
\* GenericObjectPointer do not touch
rest == <<gcall, tbl, res, procs, touched, origin>>

NoObj == [val |-> 0, id |-> 0, res |-> 0]

\* memory resources: std::pmr::get_default_resource(), one for the whole
\* program, and the member pool of each Storage s
default_resource == 0 - 1
pool(s) == s
\* the resource of the allocator of the list of Storage s.  No constructor of
\* Storage passes &pool to its base: Storage() default-constructs the list,
\* and a default-constructed polymorphic_allocator uses the default resource;
\* the list copy constructor takes select_on_container_copy_construction(),
\* which is a default-constructed polymorphic_allocator again.
get_allocator_resource(s) == default_resource

\* ------------------------------------------------------------------------
\* TypeMapping.hpp: type_table
\* ------------------------------------------------------------------------
NoIndex == 0 - 1     \* index_of of a type that is in no row (throw "No type in table")

\* type_table_row<Index, T, Ts...>::index_of<U>() and the last row's
RECURSIVE row_index_of(_, _, _)
row_index_of(Index, rows, U) ==
  IF Head(rows) = U THEN Index
  ELSE IF Len(rows) = 1 THEN NoIndex
  ELSE row_index_of(Index + 1, Tail(rows), U)

\* using data = type_table_row<0, Ts...>; index_of = data::index_of<T>()
table_index_of_from1(rows, T) == row_index_of(1, rows, T)
table_index_of(rows, T) == row_index_of(0, rows, T)

\* type_table<Ts...>::index_of<T>
index_of(T) == table_index_of(Ts, T)

\* row_indexer<Table, idx>::indexed_type
RECURSIVE row_indexer(_, _)
row_indexer(rows, idx) ==
  IF idx = 0 THEN Head(rows) ELSE row_indexer(Tail(rows), idx - 1)

\* type_of = row_indexer<data, idx>::indexed_type
table_type_of(rows, idx) == row_indexer(rows, idx)

\* type_table<Ts...>::type_of<idx>
type_of(idx) == table_type_of(Ts, idx)

\* ---- lookups in a type_table over any list of distinct types ----
TypeNames == <<"int", "string", "double", "char">>
RECURSIVE Tables(_)
\* the lists of n distinct types
Tables(n) ==
  IF n = 0 THEN {<<>>}
  ELSE {Append(t, TypeNames[i]) : t \in Tables(n - 1), i \in 1..Len(TypeNames)}
       \ {Append(t, t[j]) : t \in Tables(n - 1), j \in 1..(n - 1)}
AllTables == UNION {Tables(n) : n \in 1..Len(TypeNames)}
NoRes == [op |-> "none", arg |-> 0, out |-> 0]

\* constexpr size_t i = type_table<tbl...>::index_of<T>, T a type of the table
IndexOf(T) ==
  /\ \E i \in 1..Len(tbl) : tbl[i] = T
  /\ res' = [op |-> "index_of", arg |-> T, out |-> table_index_of(tbl, T)]
  /\ UNCHANGED <<storages, mem, hs, gs, hist, erasedIds, clearedIds, err, gcall, tbl, procs, touched, origin>>

\* using T = type_table<tbl...>::type_of<idx>, idx below size
TypeOf(idx) ==
  /\ idx \in 0..(Len(tbl) - 1)
  /\ res' = [op |-> "type_of", arg |-> idx, out |-> table_type_of(tbl, idx)]
  /\ UNCHANGED <<storages, mem, hs, gs, hist, erasedIds, clearedIds, err, gcall, tbl, procs, touched, origin>>

\* ------------------------------------------------------------------------
\* Storage.hpp: Storage<T> and Storage<T>::ObjectPointer
\* ------------------------------------------------------------------------
\* container::end(): the sentinel node of Storage s
End(s) == 0 - s

\* ObjectPointer(container, it).  T is the static type of the handle
\* (Storage<T>::ObjectPointer); obj is history, the emplace call that
\* produced the handle (0 when none did).
ObjectPointer(T, container, it, obj) ==
  [T |-> T, cont |-> container, it |-> it, obj |-> obj]

\* ObjectPointer() = default
DefaultObjectPointer(T) == ObjectPointer(T, NULL, NULL, 0)

\* ObjectPointer::operator bool
ObjectPointerBool(h) ==
  h.cont # NULL /\ h.it # End(h.cont)

\* ObjectPointer::operator==
ObjectPointerEq_cont(h, other) ==
  h.cont = other.cont
ObjectPointerEq(h, other) ==
  h.it = other.it

\* ObjectPointer::operator* (the node the iterator points at)
Deref(h) == mem[h.it]

\* ObjectPointer::GetStorage
GetStorage(h) == h.cont

\* container::size / container::empty
StorageSize(s) == Len(storages[s].list)
StorageEmpty(s) == storages[s].list = <<>>

\* begin() .. end(): the nodes visited, in order
Traverse(s) == [i \in 1..Len(storages[s].list) |-> mem[storages[s].list[i]]]

\* rbegin() .. rend()
RECURSIVE Reverse(_)
Reverse(q) == IF q = <<>> THEN <<>> ELSE Append(Reverse(Tail(q)), Head(q))
RTraverse(s) == Reverse(Traverse(s))

\* ---- iterators of the list of Storage s ----
\* An iterator is [kind, at]: at is the address of the node it points at, or
\* End(s).  A reverse iterator holds the iterator `at` as its base and
\* dereferences to the node before it.
Iter(kind, at) == [kind |-> kind, at |-> at]
\* ++it and --it on the list of Storage s
Succ(s, at) ==
  LET list == storages[s].list
      i == CHOOSE j \in 1..Len(list) : list[j] = at
  IN IF i = Len(list) THEN End(s) ELSE list[i + 1]
Pred(s, at) ==
  LET list == storages[s].list IN
    IF at = End(s) THEN list[Len(list)]
    ELSE list[(CHOOSE j \in 1..Len(list) : list[j] = at) - 1]
\* container::begin / end / cbegin / cend
StorageBegin(s) ==
  Iter("iterator", IF storages[s].list = <<>> THEN End(s) ELSE storages[s].list[1])
StorageEnd(s) == Iter("iterator", End(s))
StorageCBegin(s) == Iter("const_iterator", StorageBegin(s).at)
StorageCEnd(s) == Iter("const_iterator", End(s))
\* container::rbegin / rend / crbegin / crend: reverse_iterator(end()), reverse_iterator(begin())
StorageRBegin(s) == Iter("reverse_iterator", End(s))
StorageREnd(s) == Iter("reverse_iterator", StorageBegin(s).at)
StorageCRBegin(s) == Iter("const_reverse_iterator", End(s))
StorageCREnd(s) == Iter("const_reverse_iterator", StorageBegin(s).at)
\* for (it = first; it != last; ++it) yield *it.  operator!= compares the
\* nodes pointed at, also between an iterator and a const iterator.
RECURSIVE Walk(_, _, _)
Walk(s, first, last) ==
  IF first.at = last.at THEN <<>>
  ELSE <<mem[first.at]>> \o Walk(s, Iter(first.kind, Succ(s, first.at)), last)
\* the same loop over reverse iterators
RECURSIVE RWalk(_, _, _)
RWalk(s, first, last) ==
  IF first.at = last.at THEN <<>>
  ELSE <<mem[Pred(s, first.at)]>> \o RWalk(s, Iter(first.kind, Pred(s, first.at)), last)

\* addresses some handle of the caller names
Named == {hs[k].it : k \in HandleIds} \cup {gs[j].ptr.it : j \in GenericIds}

\* the allocator of the list: an address that holds no node at the moment.
\* The default memory resource may hand out a freed address again, so a
\* freed address that a stale handle still names can come back.  Free
\* addresses no handle names cannot be told apart; the lowest stands for
\* all of them.
FreeAddrAfter(used) ==
  LET free == {a \in Addr : mem[a].id = 0} \ used
      anon == free \ Named
  IN (free \cap Named) \cup {a \in anon : \A b \in anon : a <= b}
FreeAddr == FreeAddrAfter({})
\* n allocations in a row, the addresses taken before being used
RECURSIVE FreeAddrSeqs(_, _)
FreeAddrSeqs(n, used) ==
  IF n = 0 THEN {<<>>}
  ELSE UNION {{<<a>> \o q : q \in FreeAddrSeqs(n - 1, used \cup {a})} :
              a \in FreeAddrAfter(used)}

\* container::emplace(end(), val): link a new node before end()
ListEmplaceEnd_front(list, a) ==
  <<a>> \o list
ListEmplaceEnd(list, a) ==
  Append(list, a)

\* container::erase(it): unlink the node at it
ListErase_tail(list, it) ==
  LET i == CHOOSE j \in 1..Len(list) : list[j] = it IN SubSeq(list, 1, i - 1)
ListErase_none(list, it) ==
  list
ListErase(list, it) ==
  SelectSeq(list, LAMBDA a : a # it)

\* ---- history-based notions the claims speak about ----
\* the handle was produced by the Storage it names, by an emplace call
ProducedBy(h) ==
  /\ h.cont # NULL
  /\ h.obj \in 1..Len(hist)
  /\ hist[h.obj].s = h.cont
\* the slot handle h was issued for is not destroyed, in the state where the
\* nodes are m and the destroyed objects are gone
SlotLiveIn(h, m, gone) ==
  /\ h.obj \notin gone
  /\ h.it \in Addr
  /\ m[h.it].id = h.obj
SlotLive(h) == SlotLiveIn(h, mem, erasedIds \cup clearedIds)
\* valid in the sense of the erase precondition
ValidFor(h, s) == ProducedBy(h) /\ SlotLive(h) /\ h.cont = s

\* Storage::emplace(args...) on Storage s, the result stored in hs[k]
StorageEmplace(s, v, a, k) ==
  /\ Len(hist) < MaxEmplace
  /\ a \in FreeAddr
  /\ storages' = [storages EXCEPT ![s].list = ListEmplaceEnd(@, a)]
  /\ mem' = [mem EXCEPT ![a] = [val |-> v, id |-> Len(hist) + 1,
                                  res |-> get_allocator_resource(s)]]
  /\ hist' = Append(hist, [s |-> s])
  /\ hs' = [hs EXCEPT ![k] = ObjectPointer(storages[s].T, s, a, Len(hist) + 1)]
  /\ UNCHANGED <<gs, erasedIds, clearedIds>>

\* Storage::erase(std::move(hs[k])) on Storage s.  The handle has to be valid
\* for s (erase with any other handle is undefined).
StorageErase_keep(s, k) ==
  /\ ValidFor(hs[k], s)
  /\ storages' = [storages EXCEPT ![s].list = ListErase(@, hs[k].it)]
  /\ mem' = [mem EXCEPT ![hs[k].it] = NoObj]
  /\ erasedIds' = erasedIds \cup {mem[hs[k].it].id}
  /\ UNCHANGED <<hs, gs, hist, clearedIds>>
StorageErase(s, k) ==
  /\ ValidFor(hs[k], s)
  /\ storages' = [storages EXCEPT ![s].list = ListErase(@, hs[k].it)]
  /\ mem' = [mem EXCEPT ![hs[k].it] = NoObj]
  /\ erasedIds' = erasedIds \cup {mem[hs[k].it].id}
  /\ hs' = [hs EXCEPT ![k] = ObjectPointer(storages[s].T, s, End(s), 0)]
  /\ UNCHANGED <<gs, hist, clearedIds>>

\* ---- the caller's operations on a Storage it owns ----
Emplace(s, v, a, k) ==
  /\ StorageEmplace(s, v, a, k)
  /\ err' = "none"
  /\ UNCHANGED rest

Erase(s, k) ==
  /\ StorageErase(s, k)
  /\ err' = "none"
  /\ UNCHANGED rest

\* container::clear
Clear(s) ==
  /\ storages[s].list # <<>>
  /\ storages' = [storages EXCEPT ![s].list = <<>>]
  /\ mem' = [a \in Addr |->
               IF \E i \in 1..Len(storages[s].list) : storages[s].list[i] = a
               THEN NoObj ELSE mem[a]]
  /\ clearedIds' = clearedIds \cup
       {mem[storages[s].list[i]].id : i \in 1..Len(storages[s].list)}
  /\ err' = "none"
  /\ UNCHANGED <<hs, gs, hist, erasedIds>>
  /\ UNCHANGED rest

\* copy of an ObjectPointer: hs[j] = hs[k]
CopyHandle(k, j) ==
  /\ hs[j] # hs[k]
  /\ hs' = [hs EXCEPT ![j] = hs[k]]
  /\ err' = "none"
  /\ UNCHANGED <<storages, mem, gs, hist, erasedIds, clearedIds>>
  /\ UNCHANGED rest

\* hs[k] = ObjectPointer(&s, std::next(s.begin(), i - 1)): the caller makes a
\* handle for the i-th object of Storage s from the public constructor
HandleAt(s, i, k) ==
  /\ i \in 1..Len(storages[s].list)
  /\ hs[k] # ObjectPointer(storages[s].T, s, storages[s].list[i], mem[storages[s].list[i]].id)
  /\ hs' = [hs EXCEPT ![k] =
             ObjectPointer(storages[s].T, s, storages[s].list[i], mem[storages[s].list[i]].id)]
  /\ err' = "none"
  /\ UNCHANGED <<storages, mem, gs, hist, erasedIds, clearedIds>>
  /\ UNCHANGED rest

\* Storage b of CopyIds exists once it is constructed
Constructed(s) == s \in CopyIds => origin[s].how # "none"

\* std::pmr::list(const list& other): the nodes of the new list.  The copy
\* allocates one new node per element of other, in the order of other.
ListCopy_shared(list, as) ==
  list
ListCopy(list, as) ==
  as

\* Storage(const Storage& other) : container(other) {}, constructing Storage b
\* from Storage a; as: the addresses the allocator returns for the new nodes
StorageCopy(a, b, as) ==
  /\ Len(as) = Len(storages[a].list)
  /\ storages' = [storages EXCEPT ![b].list = ListCopy(storages[a].list, as)]
  /\ mem' = [x \in Addr |->
               IF \E i \in 1..Len(as) : as[i] = x
               THEN LET i == CHOOSE j \in 1..Len(as) : as[j] = x
                    IN [val |-> mem[storages[a].list[i]].val, id |-> Len(hist) + i,
                        res |-> get_allocator_resource(b)]
               ELSE mem[x]]
  /\ hist' = hist \o [i \in 1..Len(as) |-> [s |-> b]]
  /\ UNCHANGED <<hs, gs, erasedIds, clearedIds>>

\* Storage<int> b(a)
CopyConstruct(a, b) ==
  /\ ~Constructed(b)
  /\ \E as \in FreeAddrSeqs(Len(storages[a].list), {}) : StorageCopy(a, b, as)
  /\ origin' = [origin EXCEPT ![b] = [how |-> "copy", from |-> a, at |-> Len(hist),
                                         n |-> Len(storages[a].list)]]
  /\ err' = "none"
  /\ UNCHANGED <<gcall, tbl, res, procs, touched>>

\* Storage<int> b(std::move(a)).  Storage(Storage&&) = default is defined as
\* deleted, because the member pool (a monotonic_buffer_resource) can be
\* neither moved nor copied; a defaulted move constructor that is deleted
\* takes no part in overload resolution, so the constructor that runs is
\* Storage(const Storage&).
MoveConstruct(a, b) ==
  /\ ~Constructed(b)
  /\ \E as \in FreeAddrSeqs(Len(storages[a].list), {}) : StorageCopy(a, b, as)
  /\ origin' = [origin EXCEPT ![b] = [how |-> "move", from |-> a, at |-> Len(hist),
                                         n |-> Len(storages[a].list)]]
  /\ err' = "none"
  /\ UNCHANGED <<gcall, tbl, res, procs, touched>>

\* ------------------------------------------------------------------------
\* Storage.hpp: HeterogeneousStorage<Ts...>
\* ------------------------------------------------------------------------
\* std::array<VariadicContainer, size> containers = { StorageBacket<Ts>()... }:
\* the Storage object held at each array position
containers == [i \in 0..(size - 1) |-> i + 1]

GetThrows == 0      \* Get: std::runtime_error("Type doesn't stored in this storage")

\* HeterogeneousStorage::Get<ObjT>: std::get<StorageBacket<ObjT>>(containers[idx])
Get_first(ObjT) ==
  containers[0]
Get(ObjT) ==
  LET idx == index_of(ObjT) IN
    IF idx \in DOMAIN containers /\ storages[containers[idx]].T = ObjT
    THEN containers[idx]
    ELSE GetThrows

\* what becomes of a use of Get<ObjT>.  constexpr size_t idx = index_of<ObjT>
\* must be a constant expression; for a type that is in no row its evaluation
\* reaches throw "No type in table", so the program is ill-formed and is not
\* built.  Otherwise std::get throws bad_variant_access when containers[idx]
\* holds another alternative, rethrown as std::runtime_error.
GetOutcome(ObjT) ==
  IF index_of(ObjT) = NoIndex THEN "ill_formed"
  ELSE IF Get(ObjT) = GetThrows THEN "runtime_error"
  ELSE "none"

\* the caller's program asks for a type the storage is not instantiated with:
\* st.emplace<U>(..), st.erase<U>(..), st.begin<U>(), st.end<U>(), each of
\* which begins with Get<U>()
HRequest(U) ==
  /\ U \notin Types
  /\ err # "ill_formed"
  /\ err' = GetOutcome(U)
  /\ UNCHANGED <<storages, mem, hs, gs, hist, erasedIds, clearedIds>>
  /\ UNCHANGED rest

RECURSIVE reduce(_)
reduce(sizes) == IF sizes = <<>> THEN 0 ELSE Head(sizes) + reduce(Tail(sizes))

\* HeterogeneousStorage::size: sizes = { Get<Ts>().size()... }; std::reduce
HSize_skip ==
  reduce([i \in 1..(Len(Ts) - 1) |-> StorageSize(Get(Ts[i]))])
HSize ==
  reduce([i \in 1..Len(Ts) |-> StorageSize(Get(Ts[i]))])

\* HeterogeneousStorage::empty
HEmpty == HSize = 0

\* HeterogeneousStorage::begin<ObjT>() .. end<ObjT>()
HTraverse(ObjT) == Traverse(Get(ObjT))

\* HeterogeneousStorage::emplace<ObjT>(args...)
HEmplace(ObjT, v, a, k) ==
  /\ Get(ObjT) # GetThrows
  /\ StorageEmplace(Get(ObjT), v, a, k)
  /\ err' = "none"
  /\ UNCHANGED rest

\* HeterogeneousStorage::erase<ObjT>(ObjPtr<ObjT>&&)
HErase(ObjT, k) ==
  /\ hs[k].T = ObjT
  /\ Get(ObjT) # GetThrows
  /\ StorageErase(Get(ObjT), k)
  /\ err' = "none"
  /\ UNCHANGED rest

\* HeterogeneousStorage::begin<ObjT> .. crend<ObjT>: Get<ObjT>().begin() ..
HBegin(ObjT) == StorageBegin(Get(ObjT))
HEnd(ObjT) == StorageEnd(Get(ObjT))
HCBegin(ObjT) == StorageCBegin(Get(ObjT))
HCEnd(ObjT) == StorageCEnd(Get(ObjT))
HRBegin_begin(ObjT) ==
  Iter("reverse_iterator", StorageBegin(Get(ObjT)).at)
HRBegin(ObjT) ==
  StorageRBegin(Get(ObjT))
HREnd(ObjT) == StorageREnd(Get(ObjT))
HCRBegin(ObjT) == StorageCRBegin(Get(ObjT))
HCREnd(ObjT) == StorageCREnd(Get(ObjT))

\* ------------------------------------------------------------------------
\* Storage.hpp: TypedView<ObjT, HStorageT>
\* ------------------------------------------------------------------------
\* TypedView::begin .. crend: storage.begin<ObjT>() ..; crend() returns
\* storage.rend<ObjT>(), a reverse_iterator
ViewBegin(ObjT) == HBegin(ObjT)
ViewEnd(ObjT) == HEnd(ObjT)
ViewCBegin(ObjT) == HCBegin(ObjT)
ViewCEnd(ObjT) == HCEnd(ObjT)
ViewRBegin(ObjT) == HRBegin(ObjT)
ViewREnd(ObjT) == HREnd(ObjT)
ViewCRBegin(ObjT) == HCRBegin(ObjT)
ViewCREnd(ObjT) == HREnd(ObjT)

\* the objects a loop from the view's begin to its end yields, for each of
\* the four pairs of functions
ViewWalk(ObjT, which) ==
  IF which = "begin" THEN Walk(Get(ObjT), ViewBegin(ObjT), ViewEnd(ObjT))
  ELSE IF which = "cbegin" THEN Walk(Get(ObjT), ViewCBegin(ObjT), ViewCEnd(ObjT))
  ELSE IF which = "rbegin" THEN RWalk(Get(ObjT), ViewRBegin(ObjT), ViewREnd(ObjT))
  ELSE RWalk(Get(ObjT), ViewCRBegin(ObjT), ViewCREnd(ObjT))
Walks == {"begin", "cbegin", "rbegin", "crbegin"}

\* for (it = view.<which>(); it != view.<matching end>(); ++it) .. *it ..
\* on TypedView<ObjT, HeterogeneousStorage<int, string>>
ViewTraverse(ObjT, which) ==
  /\ Get(ObjT) # GetThrows
  /\ res # [op |-> which, arg |-> ObjT, out |-> ViewWalk(ObjT, which)]
  /\ res' = [op |-> which, arg |-> ObjT, out |-> ViewWalk(ObjT, which)]
  /\ UNCHANGED <<storages, mem, hs, gs, hist, erasedIds, clearedIds, err, gcall, tbl,
                 procs, touched, origin>>

\* ------------------------------------------------------------------------
\* Storage.hpp: HeterogeneousStorage<Ts...>::GenericObjectPointer
\* ------------------------------------------------------------------------
\* GenericObjectPointer(ObjPtrT ptr) : ptr(ptr): the variant holds the
\* alternative ObjPtr<T> of the handle's static type
GenericObjectPointer_first(ptr) ==
  [tag |-> Ts[1], ptr |-> ptr]
GenericObjectPointer(ptr) ==
  [tag |-> ptr.T, ptr |-> ptr]

\* GenericObjectPointer() = default: the first alternative, default constructed
DefaultGenericObjectPointer == GenericObjectPointer(DefaultObjectPointer(Ts[1]))

\* operator ObjPtrT() const: std::get<ObjPtrT>(ptr), bad_variant_access
\* rethrown as std::runtime_error
GenericCast_unchecked(g, U) ==
  [ok |-> TRUE, ptr |-> [g.ptr EXCEPT !.T = U]]
GenericCast(g, U) ==
  IF g.tag = U
  THEN [ok |-> TRUE, ptr |-> g.ptr]
  ELSE [ok |-> FALSE, ptr |-> DefaultObjectPointer(U)]

\* std::variant::valueless_by_exception
valueless_by_exception(g) == g.tag \notin Types

\* GenericObjectPointer::operator bool:
\*   ptr.valueless_by_exception && std::visit(ptr, [](auto&& ptr) { ... })
\* read as the conjunction it spells: the variant is valueless and the held
\* handle reports valid
GenericBool(g) ==
  valueless_by_exception(g) /\ ObjectPointerBool(g.ptr)

\* GenericObjectPointer::operator==
GenericEq(g, other) ==
  other.tag = g.tag /\ ObjectPointerEq(other.ptr, g.ptr)

\* gs[j] = GenericObjectPointer(hs[k])
Wrap(k, j) ==
  /\ gs[j] # GenericObjectPointer(hs[k])
  /\ gs' = [gs EXCEPT ![j] = GenericObjectPointer(hs[k])]
  /\ err' = "none"
  /\ UNCHANGED <<storages, mem, hs, hist, erasedIds, clearedIds>>
  /\ UNCHANGED rest

\* hs[k] = static_cast<ObjPtr<U>>(gs[j]); nothing is assigned when the cast throws
Cast(j, U, k) ==
  /\ hs' = IF GenericCast(gs[j], U).ok
           THEN [hs EXCEPT ![k] = GenericCast(gs[j], U).ptr]
           ELSE hs
  /\ err' = IF GenericCast(gs[j], U).ok THEN "none" ELSE "runtime_error"
  /\ err' # err \/ hs' # hs
  /\ UNCHANGED <<storages, mem, gs, hist, erasedIds, clearedIds>>
  /\ UNCHANGED rest

\* ---- HeterogeneousStorage::erase(GenericObjectPointer&& ptr) { erase(ptr); } ----
\* Inside the function ptr is an lvalue.  The template overload
\* erase<ObjT>(ObjPtr<ObjT>&&) cannot deduce ObjT from a GenericObjectPointer,
\* so the only function the name erase can mean in the body is
\* erase(GenericObjectPointer&&) itself: the body is a call of the function
\* it is the body of.  The body reads nothing of ptr and changes no Storage.

\* the caller's statement storage.erase(std::move(gs[j])), made on a
\* GenericObjectPointer that holds a valid handle: the call is entered
GenericEraseCall(j) ==
  /\ gcall = 0
  /\ ValidFor(gs[j].ptr, Get(gs[j].tag))
  /\ gcall' = 1
  /\ err' = "none"
  /\ UNCHANGED <<storages, mem, hs, gs, hist, erasedIds, clearedIds, tbl, res, procs, touched, origin>>

\* the body of the innermost call in progress: erase(ptr) enters the function again
GenericEraseBody ==
  /\ gcall >= 1
  /\ gcall < MaxDepth
  /\ gcall' = gcall + 1
  /\ UNCHANGED <<storages, mem, hs, gs, hist, erasedIds, clearedIds, err, tbl, res, procs, touched, origin>>

\* the innermost call finds no room for one more frame: the program ends
GenericEraseOverflow ==
  /\ gcall = MaxDepth
  /\ err # "stack_overflow"
  /\ err' = "stack_overflow"
  /\ UNCHANGED <<storages, mem, hs, gs, hist, erasedIds, clearedIds, gcall, tbl, res, procs, touched, origin>>

\* ------------------------------------------------------------------------
\* Two threads on one HeterogeneousStorage, no lock
\* ------------------------------------------------------------------------
\* Process p calls emplace<Ts[p]> and erase<Ts[p]> only and keeps its handle
\* in hs[p].  A call is not atomic: between the allocation of a node and its
\* linking, and between the unlinking of a node and its deallocation, the
\* other process may run.
ProcIds == 1..size
\* position of the node at address a in list
PosIn(list, a) == CHOOSE i \in 1..Len(list) : list[i] = a
\* q without its i-th element
RemoveAt(q, i) == SubSeq(q, 1, i - 1) \o SubSeq(q, i + 1, Len(q))

\* emplace<Ts[p]>(v), first part: T val(args...), and in list::emplace the
\* allocation of a node from the resource of the list and the construction
\* of the value in it
PEmplaceAlloc(p, v, a) ==
  /\ procs[p].pc = "idle"
  /\ Get(Ts[p]) # GetThrows
  /\ Len(hist) < MaxEmplace
  /\ a \in FreeAddr
  /\ mem' = [mem EXCEPT ![a] = [val |-> v, id |-> Len(hist) + 1,
                                  res |-> get_allocator_resource(Get(Ts[p]))]]
  /\ hist' = Append(hist, [s |-> Get(Ts[p])])
  /\ procs' = [procs EXCEPT ![p].pc = "link", ![p].a = a]
  /\ touched' = [touched EXCEPT ![a] = @ \cup {p}]
  /\ UNCHANGED <<storages, hs, gs, erasedIds, clearedIds, err, gcall, tbl, res, origin>>

\* emplace<Ts[p]>(v), second part: the node is linked before end() and the
\* handle returned
PEmplaceLink(p) ==
  /\ procs[p].pc = "link"
  /\ storages' = [storages EXCEPT ![Get(Ts[p])].list = ListEmplaceEnd(@, procs[p].a)]
  /\ hs' = [hs EXCEPT ![p] = ObjectPointer(Ts[p], Get(Ts[p]), procs[p].a, mem[procs[p].a].id)]
  /\ procs' = [procs EXCEPT ![p].pc = "idle", ![p].a = NULL,
                             ![p].alone = Append(@, mem[procs[p].a].val)]
  /\ UNCHANGED <<mem, gs, hist, erasedIds, clearedIds, err, gcall, tbl, res, touched, origin>>

\* erase<Ts[p]>(std::move(hs[p])), first part: list::erase unlinks the node
PEraseUnlink(p) ==
  /\ procs[p].pc = "idle"
  /\ Get(Ts[p]) # GetThrows
  /\ ValidFor(hs[p], Get(Ts[p]))
  /\ storages' = [storages EXCEPT ![Get(Ts[p])].list = ListErase(@, hs[p].it)]
  /\ procs' = [procs EXCEPT ![p].pc = "free", ![p].a = hs[p].it,
                             ![p].alone = RemoveAt(@, PosIn(storages[Get(Ts[p])].list, hs[p].it))]
  /\ UNCHANGED <<mem, hs, gs, hist, erasedIds, clearedIds, err, gcall, tbl, res, touched, origin>>

\* erase<Ts[p]>(std::move(hs[p])), second part: the value is destroyed, the
\* node given back to the resource of the list, and ptr set to end()
PEraseFree(p) ==
  /\ procs[p].pc = "free"
  /\ mem' = [mem EXCEPT ![procs[p].a] = NoObj]
  /\ erasedIds' = erasedIds \cup {mem[procs[p].a].id}
  /\ hs' = [hs EXCEPT ![p] = ObjectPointer(Ts[p], Get(Ts[p]), End(Get(Ts[p])), 0)]
  /\ procs' = [procs EXCEPT ![p].pc = "idle", ![p].a = NULL]
  /\ touched' = [touched EXCEPT ![procs[p].a] = @ \cup {p}]
  /\ UNCHANGED <<storages, gs, hist, clearedIds, err, gcall, tbl, res, origin>>

InitWith(table) ==
  /\ tbl = table
  /\ procs = [p \in ProcIds |-> [pc |-> "idle", a |-> NULL, alone |-> <<>>]]
  /\ touched = [a \in Addr |-> {}]
  /\ res = NoRes
  /\ storages = [s \in StorageIds |->
                   [T |-> IF s \in ContainerIds THEN Ts[s] ELSE Ts[1], list |-> <<>>]]
  /\ mem = [a \in Addr |-> NoObj]
  /\ hs = [k \in HandleIds |-> DefaultObjectPointer(Ts[1])]
  /\ gs = [j \in GenericIds |-> DefaultGenericObjectPointer]
  /\ hist = <<>>
  /\ erasedIds = {}
  /\ clearedIds = {}
  /\ err = "none"
  /\ gcall = 0
  /\ origin = [b \in CopyIds |-> [how |-> "none", from |-> NULL, at |-> 0, n |-> 0]]

Init == InitWith(Ts)

Next ==
  \/ \E s \in PoolIds, v \in Vals, a \in Addr, k \in HandleIds : Emplace(s, v, a, k)
  \/ \E s \in PoolIds, k \in HandleIds : Erase(s, k)
  \/ \E s \in PoolIds : Clear(s)
  \/ \E k \in HandleIds, j \in HandleIds : CopyHandle(k, j)

Spec == Init /\ [][Next]_vars

\* the caller works on a HeterogeneousStorage<int, string>
HNext ==
  \/ \E T \in Types, v \in Vals, a \in Addr, k \in HandleIds : HEmplace(T, v, a, k)
  \/ \E T \in Types, k \in HandleIds : HErase(T, k)

HSpec == Init /\ [][HNext]_vars

\* the caller works on a HeterogeneousStorage<int, string> through
\* GenericObjectPointer; it emplaces at most MaxWrapped objects
MaxWrapped == MaxEmplace - 2

GNext ==
  \/ \E T \in Types, v \in Vals, a \in Addr, k \in HandleIds :
       Len(hist) < MaxWrapped /\ HEmplace(T, v, a, k)
  \/ \E T \in Types, k \in HandleIds : HErase(T, k)
  \/ \E k \in HandleIds, j \in GenericIds : Wrap(k, j)
  \/ \E j \in GenericIds, U \in Types, k \in HandleIds : Cast(j, U, k)

GSpec == Init /\ [][GNext]_vars

\* the caller of GSpec also erases through GenericObjectPointer; while a call
\* of erase(GenericObjectPointer&&) is in progress the caller makes no other call
ENext ==
  \/ gcall = 0 /\ GNext
  \/ \E j \in GenericIds : GenericEraseCall(j)
  \/ GenericEraseBody
  \/ GenericEraseOverflow

ESpec == Init /\ [][ENext]_vars

\* the caller works on a Storage<int> and on a second Storage<int> it
\* constructs from the first; it makes at most MaxPooled emplace calls, with
\* the values 1, 2, .. in turn
MaxPooled == MaxEmplace - 1
EmplaceCalls == Len(hist) - origin[CHOOSE b \in CopyIds : TRUE].n
NextVal == (Len(hist) % MaxVal) + 1

PNext ==
  \/ \E s \in PoolIds \cup CopyIds, a \in Addr, k \in HandleIds :
       /\ Constructed(s)
       /\ EmplaceCalls < MaxPooled
       /\ Emplace(s, NextVal, a, k)
  \/ \E s \in PoolIds \cup CopyIds, k \in HandleIds : Erase(s, k)
  \/ \E s \in PoolIds \cup CopyIds, i \in 1..NumAddr, k \in HandleIds : HandleAt(s, i, k)
  \/ \E a \in PoolIds, b \in CopyIds : CopyConstruct(a, b)
  \/ \E a \in PoolIds, b \in CopyIds : MoveConstruct(a, b)

PSpec == Init /\ [][PNext]_vars

\* the caller works on two Storage<int>, the second constructed as a copy of
\* the first, and copies the handles emplace returns
KNext ==
  \/ \E s \in PoolIds \cup CopyIds, a \in Addr, k \in HandleIds :
       /\ Constructed(s)
       /\ EmplaceCalls < MaxPooled
       /\ Emplace(s, NextVal, a, k)
  \/ \E s \in PoolIds \cup CopyIds, k \in HandleIds : Erase(s, k)
  \/ \E a \in PoolIds, b \in CopyIds : CopyConstruct(a, b)
  \/ \E k \in HandleIds, j \in HandleIds : CopyHandle(k, j)

KSpec == Init /\ [][KNext]_vars

\* a translation unit instantiates type_table over some list of distinct
\* types and looks types and indices up in it
TInit == \E table \in AllTables : InitWith(table)

TNext ==
  \/ \E i \in 1..Len(TypeNames) : IndexOf(TypeNames[i])
  \/ \E idx \in 0..(Len(TypeNames) - 1) : TypeOf(idx)

TSpec == TInit /\ [][TNext]_vars

\* the caller emplaces at most MaxViewed objects into a
\* HeterogeneousStorage<int, string>, the values 1, 2, .. in turn, erases,
\* and traverses it through TypedViews
MaxViewed == MaxEmplace - 1

VNext ==
  \/ \E T \in Types, a \in Addr, k \in HandleIds :
       Len(hist) < MaxViewed /\ HEmplace(T, NextVal, a, k)
  \/ \E T \in Types, k \in HandleIds : HErase(T, k)
  \/ \E T \in Types, which \in Walks : ViewTraverse(T, which)

VSpec == Init /\ [][VNext]_vars

\* two threads share a HeterogeneousStorage<int, string>, one per type
CNext ==
  \/ \E p \in ProcIds, v \in Vals, a \in Addr : PEmplaceAlloc(p, v, a)
  \/ \E p \in ProcIds : PEmplaceLink(p)
  \/ \E p \in ProcIds : PEraseUnlink(p)
  \/ \E p \in ProcIds : PEraseFree(p)

CSpec == Init /\ [][CNext]_vars

\* the caller of HSpec, whose program may also ask for a type that is not
\* one of Ts; a program that is ill-formed makes no further call
UNext ==
  \/ err # "ill_formed" /\ HNext
  \/ \E i \in 1..Len(TypeNames) : HRequest(TypeNames[i])

USpec == Init /\ [][UNext]_vars

\* ========================================================================
\* Claims about Storage<T> (checked under Spec)
\* ========================================================================
\* emplace calls made on Storage s, erase calls made on Storage s
nEmplace(s) == Cardinality({i \in 1..Len(hist) : hist[i].s = s})
nErase(s) == Cardinality({i \in erasedIds : hist[i].s = s})
\* no clear call has been made on Storage s with objects in it
NoClear(s) == \A i \in clearedIds : hist[i].s # s
\* objects emplaced into Storage s and not destroyed since
LiveIds(s) == {i \in 1..Len(hist) : hist[i].s = s /\ i \notin erasedIds \cup clearedIds}
\* address a is a node of list
InList(list, a) == \E i \in 1..Len(list) : list[i] = a

\* C1: after any sequence of emplace and erase calls on one Storage, size()
\* is the number of emplace calls minus the number of erase calls, and
\* empty() holds exactly when that number is 0.
C1_SizeIsEmplacesMinusErases ==
  \A s \in PoolIds :
    NoClear(s) =>
      /\ StorageSize(s) = nEmplace(s) - nErase(s)
      /\ StorageEmpty(s) <=> (nEmplace(s) - nErase(s) = 0)

C1_Witness ==
  \E s \in PoolIds :
    NoClear(s) /\ nEmplace(s) = MaxEmplace /\ nErase(s) >= 1 /\ StorageSize(s) >= 1

\* C2: traversal from begin() to end() yields exactly the objects emplaced
\* and not yet erased, each once, in the order of their emplace calls.
C2_TraversalIsInsertionOrder ==
  \A s \in PoolIds :
    LET t == Traverse(s) IN
      /\ {t[i].id : i \in 1..Len(t)} = LiveIds(s)
      /\ \A i \in 1..Len(t) : \A j \in 1..Len(t) : i < j => t[i].id < t[j].id

\* three objects emplaced, the second erased: the first and the third remain
C2_Witness ==
  \E s \in PoolIds :
    /\ nEmplace(s) = 3
    /\ erasedIds = {2}
    /\ clearedIds = {}
    /\ Len(Traverse(s)) = 2
    /\ Traverse(s)[1].id = 1
    /\ Traverse(s)[2].id = 3

\* C3: erase(h1) leaves every handle h2 of the same Storage that refers to
\* another live slot valid, referring to the same object with the same
\* value at the same address.
C3_EraseKeepsOtherHandles ==
  [][\A s \in PoolIds : \A k \in HandleIds :
       Erase(s, k) =>
         \A k2 \in HandleIds :
           (ValidFor(hs[k2], s) /\ hs[k2].it # hs[k].it) =>
             /\ hs'[k2] = hs[k2]
             /\ ObjectPointerBool(hs'[k2])
             /\ ProducedBy(hs[k2])
             /\ SlotLiveIn(hs[k2], mem', erasedIds' \cup clearedIds')
             /\ mem'[hs[k2].it] = mem[hs[k2].it]
             /\ InList(storages'[s].list, hs[k2].it)]_vars

\* an erase call was made while a handle to an older object was held, and
\* that handle is still held
C3_Witness ==
  \E s \in PoolIds : \E k \in HandleIds : \E e \in erasedIds :
    /\ hist[e].s = s
    /\ ValidFor(hs[k], s)
    /\ hs[k].obj < e
    /\ InList(storages[s].list, hs[k].it)

\* C4: the validity check of a handle is true if and only if the handle was
\* produced by its Storage and the slot it refers to has not been erased.
C4_BoolIffProducedAndLive ==
  \A k \in HandleIds :
    ObjectPointerBool(hs[k]) <=> (ProducedBy(hs[k]) /\ SlotLive(hs[k]))

\* C5: emplace returns a handle that reports valid and dereferences to the
\* newly constructed object, and leaves the other objects alone; erase(h) removes exactly the referenced slot
\* and leaves the handle passed in reporting invalid.
C5_EmplaceValidEraseInvalidates ==
  [][/\ \A s \in PoolIds : \A v \in Vals : \A a \in Addr : \A k \in HandleIds :
          Emplace(s, v, a, k) =>
            /\ ObjectPointerBool(hs'[k])
            /\ hs'[k].cont = s
            /\ mem'[hs'[k].it] = [val |-> v, id |-> Len(hist'),
                                   res |-> get_allocator_resource(s)]
            /\ \A b \in Addr \ {hs'[k].it} : mem'[b] = mem[b]
            /\ ~InList(storages[s].list, hs'[k].it)
            /\ InList(storages'[s].list, hs'[k].it)
     /\ \A s \in PoolIds : \A k \in HandleIds :
          Erase(s, k) =>
            /\ \A a \in Addr :
                 InList(storages'[s].list, a) <=>
                   (InList(storages[s].list, a) /\ a # hs[k].it)
            /\ Len(storages'[s].list) = Len(storages[s].list) - 1
            /\ \A s2 \in StorageIds \ {s} : storages'[s2] = storages[s2]
            /\ ~ObjectPointerBool(hs'[k])]_vars

\* an emplace and an erase have returned: one handle is the erased one, and
\* another one refers to a live object
C5_Witness ==
  \E s \in PoolIds : \E k \in HandleIds : \E k2 \in HandleIds :
    /\ erasedIds # {}
    /\ hs[k].cont = s /\ hs[k].it = End(s)
    /\ ValidFor(hs[k2], s) /\ ObjectPointerBool(hs[k2])

\* ========================================================================
\* Claims about HeterogeneousStorage<Ts...> (checked under HSpec)
\* ========================================================================
\* C6: for distinct registered types A and B, emplace<A> and erase<A> leave
\* the size, the contents and the iteration order of B's sub-pool unchanged
\* and leave every handle into B's sub-pool valid.
C6_SubPoolIsolation ==
  [][\A A \in Types : \A B \in Types \ {A} :
       (/\ storages'[Get(A)] # storages[Get(A)]    \* true of every call on A
        /\ \/ \E v \in Vals, a \in Addr, k \in HandleIds : HEmplace(A, v, a, k)
           \/ \E k \in HandleIds : HErase(A, k)) =>
         /\ StorageSize(Get(B))' = StorageSize(Get(B))
         /\ storages'[Get(B)] = storages[Get(B)]
         /\ HTraverse(B)' = HTraverse(B)
         /\ \A k \in HandleIds :
              ValidFor(hs[k], Get(B)) =>
                /\ ObjectPointerBool(hs[k])
                /\ SlotLiveIn(hs[k], mem', erasedIds' \cup clearedIds')
                /\ InList(storages'[Get(B)].list, hs[k].it)]_vars

\* an object of type A was emplaced and erased while a handle to an older
\* object of type B was held, and that handle is still valid
C6_Witness ==
  \E A \in Types : \E B \in Types \ {A} : \E k \in HandleIds : \E e \in erasedIds :
    /\ hist[e].s = Get(A)
    /\ ValidFor(hs[k], Get(B))
    /\ hs[k].obj < e
    /\ StorageSize(Get(B)) >= 1

\* C7: size() is the sum over the registered types of the number of live
\* objects of that type's sub-pool, each sub-pool counted once, and empty()
\* holds exactly when no sub-pool has a live object.
C7_SizeIsSumOfSubPools ==
  /\ HSize = Cardinality({i \in 1..Len(hist) :
                            hist[i].s \in ContainerIds /\ i \notin erasedIds})
  /\ HSize = reduce([i \in 1..Len(Ts) |-> Cardinality(LiveIds(containers[i - 1]))])
  /\ HEmpty <=> \A s \in ContainerIds : LiveIds(s) = {}

\* two ints and one string emplaced: size() is 3, the int sub-pool has 2
\* objects and the string sub-pool has 1
C7_Witness ==
  /\ HSize = 3
  /\ StorageSize(Get("int")) = 2
  /\ StorageSize(Get("string")) = 1

\* ========================================================================
\* Claims about GenericObjectPointer (checked under GSpec)
\* ========================================================================
\* C8: for every valid typed handle h of a registered type T, wrapping h in
\* a GenericObjectPointer and casting it back to ObjPtr<T> returns a handle
\* equal to h that refers to the same object; wrapping and casting copy or
\* modify no object.
C8_RoundTrip ==
  /\ [](\A k \in HandleIds :
          ValidFor(hs[k], hs[k].cont) =>
            LET r == GenericCast(GenericObjectPointer(hs[k]), hs[k].T) IN
              /\ r.ok
              /\ r.ptr.T = hs[k].T
              /\ ObjectPointerEq(r.ptr, hs[k])
              /\ GetStorage(r.ptr) = GetStorage(hs[k])
              /\ Deref(r.ptr) = Deref(hs[k]))
  /\ [][/\ \A k \in HandleIds : \A j \in GenericIds :
             Wrap(k, j) => storages' = storages /\ mem' = mem /\ hs' = hs
        /\ \A j \in GenericIds : \A U \in Types : \A k \in HandleIds :
             (gs[j].tag = U /\ Cast(j, U, k)) =>
               /\ err' = "none"
               /\ ObjectPointerEq(hs'[k], gs[j].ptr)
               /\ storages' = storages /\ mem' = mem /\ gs' = gs]_vars

\* a valid handle was wrapped and cast back into another variable: both
\* variables now hold the handle
C8_Witness ==
  \E k \in HandleIds : \E k2 \in HandleIds \ {k} : \E j \in GenericIds :
    /\ err = "none"
    /\ ValidFor(hs[k], hs[k].cont)
    /\ gs[j] = GenericObjectPointer(hs[k])
    /\ hs[k2] = hs[k]
    /\ hs[k].T = "string"

\* C9: casting a GenericObjectPointer that wraps an ObjPtr<T> to ObjPtr<U>
\* with U different from T throws; afterwards the GenericObjectPointer has
\* the same tag and the same handle, no handle value was produced and the
\* sub-pools are unchanged.
C9_CastMismatchThrows ==
  [][\A j \in GenericIds : \A U \in Types : \A k \in HandleIds :
       (U # gs[j].tag /\ Cast(j, U, k)) =>
         /\ err' = "runtime_error"
         /\ hs' = hs
         /\ gs' = gs
         /\ storages' = storages
         /\ mem' = mem]_vars

\* a cast of a GenericObjectPointer that wraps a valid handle has thrown
C9_Witness ==
  \E j \in GenericIds :
    /\ err = "runtime_error"
    /\ ValidFor(gs[j].ptr, gs[j].ptr.cont)
    /\ ObjectPointerBool(gs[j].ptr)

\* C10: the validity check of a GenericObjectPointer is true if and only if
\* the typed handle held under its active tag is valid.
C10_GenericBoolIffHeldHandleValid ==
  \A j \in GenericIds :
    GenericBool(gs[j]) <=> ObjectPointerBool(gs[j].ptr)

\* ========================================================================
\* Claims about erase(GenericObjectPointer&&) (checked under ESpec)
\* ========================================================================
\* C11: a call of erase on a GenericObjectPointer terminates: it resolves
\* the held handle and delegates to erase<T>, one call deep, and never ends
\* the program by running out of stack.
C11_GenericEraseTerminates ==
  /\ gcall <= 1
  /\ err # "stack_overflow"

\* ========================================================================
\* Claims about two Storage objects, one constructed from the other
\* (checked under PSpec)
\* ========================================================================
\* the values a traversal of list visits, the nodes being m
TraverseVals(list, m) == [i \in 1..Len(list) |-> m[list[i]].val]
\* the step is an emplace or an erase call on Storage s
CallOn(s) ==
  \/ \E a \in Addr, k \in HandleIds : Emplace(s, NextVal, a, k)
  \/ \E k \in HandleIds : Erase(s, k)

\* C12: a copy-constructed Storage holds the values of the original in the
\* same order, in nodes of its own, and the original is as it was; after
\* that an emplace or erase call on either of the two leaves the other's
\* list, values, order and the validity of the handles into it unchanged.
C12_CopyIsIndependent ==
  /\ [](\A a \in PoolIds, b \in CopyIds :
         \A i \in 1..Len(storages[a].list) : ~InList(storages[b].list, storages[a].list[i]))
  /\ [][/\ \A a \in PoolIds, b \in CopyIds :
            CopyConstruct(a, b) =>
              /\ TraverseVals(storages'[b].list, mem') = TraverseVals(storages[a].list, mem)
              /\ Len(storages'[b].list) = Len(storages[a].list)
              /\ storages'[a] = storages[a]
              /\ TraverseVals(storages'[a].list, mem') = TraverseVals(storages[a].list, mem)
        /\ \A s \in PoolIds \cup CopyIds, t \in PoolIds \cup CopyIds :
            (s # t /\ Constructed(t) /\ CallOn(s)) =>
              /\ storages'[t] = storages[t]
              /\ TraverseVals(storages'[t].list, mem') = TraverseVals(storages[t].list, mem)
              /\ \A j \in HandleIds :
                   (hs'[j] = hs[j] /\ hs[j].cont = t) =>
                     (SlotLiveIn(hs[j], mem', erasedIds' \cup clearedIds') <=> SlotLive(hs[j]))
       ]_vars
\* a Storage with 2 objects was copied and one object of the copy erased
C12_Witness ==
  \E a \in PoolIds, b \in CopyIds :
    /\ origin[b].how = "copy"
    /\ origin[b].n = 2
    /\ Len(storages[a].list) = 2
    /\ Len(storages[b].list) = 1
    /\ \E i \in erasedIds : hist[i].s = b

\* C13: after Storage b was move-constructed from Storage a, every handle
\* obtained from a before the move whose object is not destroyed points at
\* an object that is in b's traversal.
C13_MovedHandlesPointIntoTarget ==
  \A a \in PoolIds, b \in CopyIds :
    (origin[b].how = "move" /\ origin[b].from = a) =>
      \A k \in HandleIds :
        (/\ hs[k].cont = a
         /\ hs[k].obj \in 1..origin[b].at
         /\ ProducedBy(hs[k])
         /\ SlotLive(hs[k])) =>
          InList(storages[b].list, hs[k].it)

\* C19: after any calls made on the Storage objects (emplace, erase,
\* construction of one from another), every handle whose validity check is
\* true names, by GetStorage(), the Storage whose traversal contains the
\* object the handle points at.
C19_GetStorageHoldsTheObject ==
  \A k \in HandleIds :
    ObjectPointerBool(hs[k]) =>
      /\ GetStorage(hs[k]) \in StorageIds
      /\ InList(storages[GetStorage(hs[k])].list, hs[k].it)

\* C20: a copy of a handle compares equal to the original; two handles
\* returned by different emplace calls, on one Storage or on two, whose
\* objects are both not destroyed never compare equal; a default-constructed
\* handle reports invalid.
C20_EqualityIdentifiesSlots ==
  /\ [](\A k \in HandleIds, j \in HandleIds :
         (/\ ProducedBy(hs[k]) /\ SlotLive(hs[k])
          /\ ProducedBy(hs[j]) /\ SlotLive(hs[j])
          /\ hs[k].obj # hs[j].obj) =>
           (~ObjectPointerEq(hs[k], hs[j]) /\ ~ObjectPointerEq(hs[j], hs[k])))
  /\ [](\A T \in Types :
         /\ ~ObjectPointerBool(DefaultObjectPointer(T))
         /\ \A k \in HandleIds :
              hs[k] = DefaultObjectPointer(T) => ~ObjectPointerBool(hs[k]))
  /\ [][\A k \in HandleIds, j \in HandleIds :
          CopyHandle(k, j) =>
            /\ ObjectPointerEq(hs'[j], hs'[k])
            /\ ObjectPointerEq(hs'[k], hs'[j])
            /\ hs'[k] = hs[k]]_vars
\* the caller holds the handles of two emplace calls, one made on each of the
\* two Storages, and both objects are live
C20_Witness ==
  \E a \in PoolIds, b \in CopyIds :
    /\ ValidFor(hs[1], a)
    /\ ValidFor(hs[2], b)
    /\ Len(storages[a].list) = 1
    /\ Len(storages[b].list) = 2

\* C16: every node of the list of a Storage, however the Storage was
\* constructed, was allocated from the member pool of that Storage.
C16_SlotsFromOwnArena ==
  \A s \in StorageIds :
    \A i \in 1..Len(storages[s].list) : mem[storages[s].list[i]].res = pool(s)

\* ========================================================================
\* Claims about type_table (checked under TSpec)
\* ========================================================================
\* C14: in a type_table over N distinct types index_of and type_of are
\* inverse to each other between the types of the table and 0..N-1, every
\* lookup made returns accordingly, and the element of containers at
\* position index_of(T) is the Storage of T.
C14_IndexOfTypeOfInverse ==
  /\ \A i \in 1..Len(tbl) :
       /\ table_index_of(tbl, tbl[i]) \in 0..(Len(tbl) - 1)
       /\ table_type_of(tbl, table_index_of(tbl, tbl[i])) = tbl[i]
       /\ table_index_of(tbl, table_type_of(tbl, i - 1)) = i - 1
       \* containers = { StorageBacket<Ts>()... }: element i-1 is made for tbl[i]
       /\ tbl[table_index_of(tbl, tbl[i]) + 1] = tbl[i]
  /\ res.op = "index_of" =>
       /\ res.out \in 0..(Len(tbl) - 1)
       /\ table_type_of(tbl, res.out) = res.arg
  /\ res.op = "type_of" =>
       table_index_of(tbl, res.out) = res.arg
  /\ \A T \in Types :
       /\ index_of(T) \in 0..(size - 1)
       /\ type_of(index_of(T)) = T
       /\ storages[containers[index_of(T)]].T = T
       /\ Get(T) = containers[index_of(T)]
  /\ \A idx \in 0..(size - 1) : index_of(type_of(idx)) = idx
\* the last type of a table of three types or more was looked up by its index
C14_Witness ==
  /\ Len(tbl) >= 3
  /\ res.op = "type_of"
  /\ res.arg = Len(tbl) - 1
  /\ res.out = tbl[Len(tbl)]

\* ========================================================================
\* Claims about requests for a type outside Ts (checked under USpec)
\* ========================================================================
\* C15: asking the HeterogeneousStorage about a type that is not one of Ts
\* fails with an error reported at that call, the std::runtime_error of Get,
\* and leaves every Storage as it was.
C15_UnregisteredTypeThrows ==
  [][\A i \in 1..Len(TypeNames) :
       HRequest(TypeNames[i]) =>
         /\ err' = "runtime_error"
         /\ storages' = storages
         /\ mem' = mem]_vars

\* ========================================================================
\* Claims about two threads on distinct types (checked under CSpec)
\* ========================================================================
\* each Storage holds what the calls of its process alone would have left
C17_AsAlone ==
  \A p \in ProcIds :
    procs[p].pc = "idle" =>
      TraverseVals(storages[Get(Ts[p])].list, mem) = procs[p].alone
\* no memory is allocated or freed by both processes
C17_NothingShared ==
  \A a \in Addr : Cardinality(touched[a]) <= 1

\* C17: with each of two threads working on its own type and no lock, every
\* interleaving leaves each Storage as the calls of its thread alone would
\* have left it, and no step of one thread reads or writes state the other
\* thread wrote.
C17_DisjointTypesNeedNoLock ==
  C17_AsAlone /\ C17_NothingShared

\* ========================================================================
\* Claims about TypedView (checked under VSpec)
\* ========================================================================
\* the elements of a set of numbers, ascending
RECURSIVE Ascending(_)
Ascending(S) ==
  IF S = {} THEN <<>>
  ELSE LET m == CHOOSE x \in S : \A y \in S : x <= y
       IN <<m>> \o Ascending(S \ {m})
\* the live objects of Storage s in the order they were constructed
LiveObjects(s) ==
  LET ids == Ascending(LiveIds(s))
  IN [j \in 1..Len(ids) |-> mem[CHOOSE a \in Addr : mem[a].id = ids[j]]]
\* what a traversal of kind `which` of the objects of type T has to yield
ExpectedWalk(T, which) ==
  IF which \in {"begin", "cbegin"} THEN LiveObjects(Get(T))
  ELSE Reverse(LiveObjects(Get(T)))

\* C18: in every state and for every type T of the storage, a TypedView for
\* T yields through begin/end and cbegin/cend the live objects of T's
\* Storage in insertion order, through rbegin/rend and crbegin/crend the
\* same objects in reverse order, never an object of another Storage, and a
\* traversal changes no Storage, node or handle.
C18_TypedViewTraversal ==
  /\ [](\A T \in Types, which \in Walks :
         /\ ViewWalk(T, which) = ExpectedWalk(T, which)
         /\ \A i \in 1..Len(ViewWalk(T, which)) :
              storages[hist[ViewWalk(T, which)[i].id].s].T = T)
  /\ [][\A T \in Types, which \in Walks :
          ViewTraverse(T, which) =>
            /\ res'.out = ExpectedWalk(T, which)
            /\ storages' = storages
            /\ mem' = mem
            /\ hs' = hs
            /\ gs' = gs]_vars
\* a TypedView was traversed from crbegin to crend and yielded two objects,
\* the later one first
C18_Witness ==
  /\ res.op = "crbegin"
  /\ Len(res.out) = 2
  /\ res.out[1].id > res.out[2].id
  /\ res.out = ViewWalk(res.arg, "crbegin")

====
